---- MODULE Spec2Model ----
(***************************************************************************)
(* PyEMMA serialization: HDF5PersistentPickler / HDF5PersistentUnpickler   *)
(* (pyemma/_base/serialization/pickle_extensions.py).                       *)
(*                                                                         *)
(* Python strings are modelled as sequences of one-character strings, so   *)
(* that str(), str.find(), slicing and '{}.{}'.format() are computed       *)
(* character by character.                                                 *)
(***************************************************************************)
EXTENDS Integers, Sequences, FiniteSets, TLC

\* ------------------------------------------------------------------ bounds
\* Number of objects the generic encoder passes to save() over the life of
\* one pickler (all dump calls together).
MaxRefs == 3

\* ----------------------------------------------------------- python values
DigitChars == <<"0", "1", "2", "3", "4", "5", "6", "7", "8", "9">>

\* str(n) of a non-negative int: its decimal digits.
RECURSIVE Str(_)
Str(n) ==
    IF n < 10 THEN <<DigitChars[n + 1]>>
    ELSE Str(n \div 10) \o <<DigitChars[(n % 10) + 1]>>

\* A python value that is an int or a str, as persistent ids carry them.
PyInt(n) == [t |-> "int", n |-> n, s |-> <<>>]
PyStr(s) == [t |-> "str", n |-> 0, s |-> s]

\* str(v) for such a value: an int is formatted, a str is itself.
PyToStr(v) == IF v.t = "int" THEN Str(v.n) ELSE v.s


\* ----------------------------------------------------------------- objects
\* The objects a graph is built from.  1, 2: non-empty numeric arrays;
\* 3: array of length 0; 4: object-dtype array; 5: a plain (non-array)
\* value; 6: zero-dimensional numeric array; 7: numeric array of shape
\* (2, 0), which has a length but no elements.
Obj == 1 .. 7

IsArray(o) == o # 5

Dtype(o) ==
    CASE o = 1 -> "float64"
      [] o = 2 -> "int64"
      [] o = 3 -> "float64"
      [] o = 4 -> "object"
      [] o = 5 -> "none"
      [] o = 6 -> "float64"
      [] OTHER -> "float64"

Shape(o) ==
    CASE o = 1 -> <<3>>
      [] o = 2 -> <<2>>
      [] o = 3 -> <<0>>
      [] o = 4 -> <<2>>
      [] o = 5 -> <<>>
      [] o = 6 -> <<>>
      [] OTHER -> <<2, 0>>

\* What an object holds: element type, shape and element values (the values
\* are named by the object that holds them; 0 names unrelated data).
Content(o) == [dtype |-> Dtype(o), shape |-> Shape(o), data |-> o]
ForeignContent == [dtype |-> "int64", shape |-> <<1>>, data |-> 0]
\* No content: what stands where an opcode or a failed call carries no value.
NoContent == [dtype |-> "", shape |-> <<>>, data |-> 0]

\* len(obj) of an array: its first dimension; a zero-dimensional array is
\* unsized and len() raises TypeError.
HasLen(o) == Shape(o) # <<>>
PyLen(o) == Shape(o)[1]

\* ------------------------------------------------------------------- state
VARIABLES
    group,      \* the hdf5 group: key string -> stored content
    seen_ids,   \* HDF5PersistentPickler._seen_ids
    asserts,    \* whether assert statements run: "on", "off" (python -O), or
                \* "unset" while no assert statement has been reached
    addr,       \* id() of every allocated object (a function on them)
    dead,       \* objects that were released
    pc,         \* pickler: "idle", "dumping", "dumped", "failed"
    nrefs,      \* number of objects saved so far
    stream,     \* the pickle file: sequence of opcodes
    memo,       \* Pickler.memo: id -> memo index
    ret,        \* what the last persistent_id call did
    calls,      \* per object: number of persistent_id calls on it
    ncreate,    \* per object: number of create_dataset calls for it
    fresh,      \* per object: at its first call, id not seen and key not in group
    lpc,        \* unpickler: "idle", "loading", "loaded", "failed"
    rpos,       \* number of opcodes of the stream the unpickler has read
    lmemo,      \* Unpickler.memo: memo index -> decoded instance
    result,     \* what each opcode read so far decoded to
    ninst,      \* number of array/object instances the unpickler has made
    registry,   \* class_rename_registry: old 'module.name' -> replacement class
    fc,         \* the last find_class call and what it did
    pl,         \* the last persistent_load call and what it did
    topo,       \* mdtraj.Topology.__dict__: what the class itself holds
                \* under '__getstate__' and '__setstate__'
    topo0,      \* what it held before the first dump or load call
    call,       \* per thread: its dump or load call and that call's patcher
    overlapped  \* whether a call was ever entered while another was running

vars == <<group, seen_ids, asserts, addr, dead, pc, nrefs, stream, memo, ret,
          calls, ncreate, fresh, lpc, rpos, lmemo, result, ninst,
          registry, fc, pl, topo, topo0, call, overlapped>>

patch_vars == <<topo, topo0, call, overlapped>>
hook_vars == <<registry, fc, pl>>

pickler_vars == <<seen_ids, addr, dead, pc, nrefs, stream, memo, ret,
                  calls, ncreate, fresh>>
unpickler_vars == <<lpc, rpos, lmemo, result, ninst>>

\* Memory addresses: a new object is allocated at an address of its own
\* (Home) or at the address of an object released before (the numbers are
\* such that str(id) has one or two characters).
Home(o) == 8 + o
Addr == {Home(o) : o \in Obj}

KeyOf(a) == Str(a)
\* Keys under which an earlier writer may have left an entry in the group.
ForeignKeys == {KeyOf(Home(1))}

\* Return values of persistent_id.
\* (obj is the object the call was made on; again is set by the caller's
\* bookkeeping: whether an earlier call on this object returned a persistent
\* id.)
NoPid == <<>>
RetNone(o) ==
    [kind |-> "None", pid |-> NoPid, exc |-> "", obj |-> o, again |-> FALSE]
RetPid(tag, key, o) ==
    [kind |-> "pid", pid |-> <<PyStr(tag), key>>, exc |-> "", obj |-> o, again |-> FALSE]
RetRaise(e, o) ==
    [kind |-> "raise", pid |-> NoPid, exc |-> e, obj |-> o, again |-> FALSE]

NpArrayTag == <<"n", "p", "_", "a", "r", "r", "a", "y">>

\* ------------------------------------------------- HDF5PersistentPickler
\* _store as it would be without the test for an existing key: the dataset
\* is written at every call.
_store_overwrites(seen, grp, o, a, env) ==
    [exc |-> "", id |-> a, seen |-> seen \cup {a},
     group |-> [k \in DOMAIN grp \cup {KeyOf(a)} |->
                   IF k = KeyOf(a) THEN Content(o) ELSE grp[k]],
     created |-> TRUE, asserted |-> FALSE]

\* _store as it would be if it returned the id first and left the
\* create_dataset call for later.
_store_token_first(seen, grp, o, a, env) ==
    [exc |-> "", id |-> a, seen |-> seen \cup {a}, group |-> grp,
     created |-> FALSE, asserted |-> FALSE]

\* _store(array): `a` is id(array), `env` says whether assert statements run
\* (env.asserts) and whether the create_dataset call succeeds (env.ioOk).
\* Yields the exception raised ("" when none), the id returned, the seen-set
\* and group it leaves, whether create_dataset was called and whether the
\* assert statement was reached.
_store(seen, grp, o, a, env) ==
    LET key == KeyOf(a) IN
    IF key \in DOMAIN grp
    THEN IF env.asserts /\ a \notin seen
         THEN [exc |-> "AssertionError", id |-> a, seen |-> seen, group |-> grp,
               created |-> FALSE, asserted |-> TRUE]
         ELSE [exc |-> "", id |-> a, seen |-> seen, group |-> grp,
               created |-> FALSE, asserted |-> TRUE]
    ELSE IF env.ioOk
         THEN [exc |-> "", id |-> a, seen |-> seen \cup {a},
               group |-> [k \in DOMAIN grp \cup {key} |->
                             IF k = key THEN Content(o) ELSE grp[k]],
               created |-> TRUE, asserted |-> FALSE]
         ELSE [exc |-> "IOError", id |-> a, seen |-> seen \cup {a}, group |-> grp,
               created |-> TRUE, asserted |-> FALSE]

\* The guard of the redirection branch as it would be without the test of
\* the element type.
Redirects_any_array(seen, o, a) ==
    IsArray(o) /\ a \notin seen

\* The guard of persistent_id's redirection branch.
Redirects(seen, o, a) ==
    IsArray(o) /\ Dtype(o) # "object" /\ a \notin seen

\* persistent_id as it would be without any bookkeeping of what was stored:
\* every eligible array is stored at every call.
persistent_id_stores_always(seen, grp, o, a, env) ==
    IF IsArray(o) /\ Dtype(o) # "object"
    THEN IF ~HasLen(o)
         THEN [ret |-> RetRaise("TypeError", o), seen |-> seen, group |-> grp,
               created |-> FALSE, asserted |-> FALSE]
         ELSE IF PyLen(o) = 0
         THEN [ret |-> RetNone(o), seen |-> seen, group |-> grp,
               created |-> FALSE, asserted |-> FALSE]
         ELSE [ret |-> RetPid(NpArrayTag, PyInt(a), o), seen |-> seen \cup {a},
               group |-> [k \in DOMAIN grp \cup {KeyOf(a)} |->
                             IF k = KeyOf(a) THEN Content(o) ELSE grp[k]],
               created |-> TRUE, asserted |-> FALSE]
    ELSE [ret |-> RetNone(o), seen |-> seen, group |-> grp,
          created |-> FALSE, asserted |-> FALSE]

\* persistent_id as it would be without the test for empty arrays.
persistent_id_stores_empty(seen, grp, o, a, env) ==
    IF Redirects(seen, o, a)
    THEN LET st == _store(seen, grp, o, a, env) IN
         [ret |-> IF st.exc # "" THEN RetRaise(st.exc, o)
                  ELSE RetPid(NpArrayTag, PyInt(st.id), o),
          seen |-> st.seen, group |-> st.group,
          created |-> st.created, asserted |-> st.asserted]
    ELSE [ret |-> RetNone(o), seen |-> seen, group |-> grp,
          created |-> FALSE, asserted |-> FALSE]

\* persistent_id as it would be if the token carried the key string in
\* place of the id.
persistent_id_str_key(seen, grp, o, a, env) ==
    IF Redirects(seen, o, a)
    THEN IF ~HasLen(o)
         THEN [ret |-> RetRaise("TypeError", o), seen |-> seen, group |-> grp,
               created |-> FALSE, asserted |-> FALSE]
         ELSE IF PyLen(o) = 0
         THEN [ret |-> RetNone(o), seen |-> seen, group |-> grp,
               created |-> FALSE, asserted |-> FALSE]
         ELSE LET st == _store(seen, grp, o, a, env) IN
              [ret |-> IF st.exc # "" THEN RetRaise(st.exc, o)
                       ELSE RetPid(NpArrayTag, PyStr(KeyOf(st.id)), o),
               seen |-> st.seen, group |-> st.group,
               created |-> st.created, asserted |-> st.asserted]
    ELSE [ret |-> RetNone(o), seen |-> seen, group |-> grp,
          created |-> FALSE, asserted |-> FALSE]

\* persistent_id as it would be if it recorded the id of every eligible
\* array before the test for empty arrays.
persistent_id_marks_seen(seen, grp, o, a, env) ==
    IF Redirects(seen, o, a)
    THEN IF ~HasLen(o)
         THEN [ret |-> RetRaise("TypeError", o), seen |-> seen, group |-> grp,
               created |-> FALSE, asserted |-> FALSE]
         ELSE IF PyLen(o) = 0
         THEN [ret |-> RetNone(o), seen |-> seen \cup {a}, group |-> grp,
               created |-> FALSE, asserted |-> FALSE]
         ELSE LET st == _store(seen, grp, o, a, env) IN
              [ret |-> IF st.exc # "" THEN RetRaise(st.exc, o)
                       ELSE RetPid(NpArrayTag, PyInt(st.id), o),
               seen |-> st.seen, group |-> st.group,
               created |-> st.created, asserted |-> st.asserted]
    ELSE [ret |-> RetNone(o), seen |-> seen, group |-> grp,
          created |-> FALSE, asserted |-> FALSE]

\* persistent_id(obj): what it returns or raises, and the seen-set and group
\* it leaves.
persistent_id(seen, grp, o, a, env) ==
    IF Redirects(seen, o, a)
    THEN IF ~HasLen(o)
         THEN [ret |-> RetRaise("TypeError", o), seen |-> seen, group |-> grp,
               created |-> FALSE, asserted |-> FALSE]
         ELSE IF PyLen(o) = 0
         THEN [ret |-> RetNone(o), seen |-> seen, group |-> grp,
               created |-> FALSE, asserted |-> FALSE]
         ELSE LET st == _store(seen, grp, o, a, env) IN
              [ret |-> IF st.exc # "" THEN RetRaise(st.exc, o)
                       ELSE RetPid(NpArrayTag, PyInt(st.id), o),
               seen |-> st.seen, group |-> st.group,
               created |-> st.created, asserted |-> st.asserted]
    ELSE [ret |-> RetNone(o), seen |-> seen, group |-> grp,
          created |-> FALSE, asserted |-> FALSE]

\* ------------------------------------------------------------ mock.patch
\* `with mock.patch('mdtraj.Topology.<attr>', new, create=True)`: what
\* dump and load wrap around the generic encoder and decoder.
Attrs == {"__getstate__", "__setstate__"}
\* The attribute a call patches and the helper it installs there
\* (mdtraj_helpers.getstate for dump, mdtraj_helpers.setstate for load).
AttrOf(kind) == IF kind = "dump" THEN "__getstate__" ELSE "__setstate__"
HelperOf(kind) == IF kind = "dump" THEN "getstate" ELSE "setstate"

\* Not in the class's own __dict__ (inherited or missing altogether).
Absent == "absent"
\* mock.DEFAULT, the patcher's mark for "no original".
Default == "DEFAULT"

\* _patch.get_original: an attribute of the class's own __dict__ is local
\* and is its own original; otherwise the patcher will delete on exit.
get_original(tp, attr) ==
    IF tp[attr] # Absent
    THEN [temp_original |-> tp[attr], is_local |-> TRUE]
    ELSE [temp_original |-> Default, is_local |-> FALSE]

\* _patch.__enter__, its setattr(target, attribute, new).
patch_setattr(tp, attr, new) == [tp EXCEPT ![attr] = new]

\* _patch.__exit__ as it would be with delattr on every path.
patch_exit_always_deletes(tp, attr, p) ==
    IF tp[attr] = Absent
    THEN [topo |-> tp, exc |-> "AttributeError"]
    ELSE [topo |-> [tp EXCEPT ![attr] = Absent], exc |-> ""]

\* _patch.__exit__: a local original is set back; otherwise the attribute
\* is deleted, and delattr of an attribute the class does not hold raises
\* AttributeError.
patch_exit(tp, attr, p) ==
    IF p.is_local /\ p.temp_original # Default
    THEN [topo |-> [tp EXCEPT ![attr] = p.temp_original], exc |-> ""]
    ELSE IF tp[attr] = Absent
    THEN [topo |-> tp, exc |-> "AttributeError"]
    ELSE [topo |-> [tp EXCEPT ![attr] = Absent], exc |-> ""]

\* A thread's call: where it is (pc: "out", "import", "patching",
\* "running"), whether it is a dump or a load, its patcher's fields,
\* whether a step of its encoder/decoder ran while the helper was not
\* installed (bare), and how its last call ended.
NoPatcher == [temp_original |-> Default, is_local |-> FALSE]
NoCall == [pc |-> "out", kind |-> "dump", patcher |-> NoPatcher, bare |-> FALSE,
           outcome |-> "none"]

\* The record of a call of this kind that has entered its with-block over
\* the class state tp.
Entered(tp, kind) ==
    [pc |-> "running", kind |-> kind, patcher |-> get_original(tp, AttrOf(kind)),
     bare |-> FALSE, outcome |-> "none"]

\* The record of a call that left its with-block over class state tp:
\* `failed` says the block raised; an exception of __exit__ itself is the
\* one the caller sees.
Left(c, tp, failed) ==
    LET x == patch_exit(tp, AttrOf(c.kind), c.patcher) IN
    [c EXCEPT !.pc = "out", !.patcher = NoPatcher,
              !.outcome = IF x.exc # "" THEN x.exc
                          ELSE IF failed THEN "raised" ELSE "returned"]

\* The class state a call leaves behind when it leaves its with-block.
Restored(c, tp) == patch_exit(tp, AttrOf(c.kind), c.patcher).topo

\* --------------------------------------------------------- generic encoder
\* Opcodes of the stream.  src is the object an opcode was written for (0 for
\* STOP); it is not part of the bytes.
OpPersid(pid, o) == [op |-> "PERSID", pid |-> pid, val |-> NoContent, m |-> 0, src |-> o]
OpInline(o, i) == [op |-> "INLINE", pid |-> NoPid, val |-> Content(o), m |-> i, src |-> o]
OpGet(i, o) == [op |-> "GET", pid |-> NoPid, val |-> NoContent, m |-> i, src |-> o]
OpStop == [op |-> "STOP", pid |-> NoPid, val |-> NoContent, m |-> 0, src |-> 0]

Range(f) == {f[x] : x \in DOMAIN f}

\* Pickler.save(obj) after persistent_id returned `r`: a persistent id is
\* written as such and not memoized; otherwise a memoized object is written
\* as a memo reference, and any other object is written inline and memoized.
SaveOp(r, mem, o, a) ==
    IF r.kind = "pid" THEN OpPersid(r.pid, o)
    ELSE IF a \in DOMAIN mem THEN OpGet(mem[a], o)
    ELSE OpInline(o, Cardinality(DOMAIN mem) + 1)

SaveMemo(r, mem, a) ==
    IF r.kind = "pid" \/ a \in DOMAIN mem THEN mem
    ELSE [x \in DOMAIN mem \cup {a} |->
             IF x = a THEN Cardinality(DOMAIN mem) + 1 ELSE mem[x]]

\* dump as it would be with the seen-set emptied at the start of the call.
DumpEnter_resets_seen ==
    /\ pc \in {"idle", "dumped"}
    /\ lpc = "idle"
    /\ nrefs < MaxRefs
    /\ pc' = "dumping"
    /\ seen_ids' = {}
    /\ call' = [call EXCEPT ![1] = Entered(topo, "dump")]
    /\ topo' = patch_setattr(topo, AttrOf("dump"), HelperOf("dump"))
    /\ UNCHANGED <<topo0, overlapped>>
    /\ UNCHANGED <<group, asserts, addr, dead, nrefs, stream, memo, ret,
                   calls, ncreate, fresh>>
    /\ UNCHANGED <<unpickler_vars, hook_vars>>

\* HDF5PersistentPickler.dump is entered: the with-block installs the
\* getstate helper and the generic encoder starts.
DumpEnter ==
    /\ pc \in {"idle", "dumped"}
    /\ lpc = "idle"
    /\ nrefs < MaxRefs
    /\ pc' = "dumping"
    /\ call' = [call EXCEPT ![1] = Entered(topo, "dump")]
    /\ topo' = patch_setattr(topo, AttrOf("dump"), HelperOf("dump"))
    /\ UNCHANGED <<topo0, overlapped>>
    /\ UNCHANGED <<group, seen_ids, asserts, addr, dead, nrefs, stream, memo, ret,
                   calls, ncreate, fresh>>
    /\ UNCHANGED <<unpickler_vars, hook_vars>>

\* The persistent id the stream holds for object o, NoPid when none.
TokenOf(strm, o) ==
    LET idx == {i \in 1 .. Len(strm) : strm[i].src = o /\ strm[i].op = "PERSID"} IN
    IF idx = {} THEN NoPid
    ELSE strm[CHOOSE i \in idx : \A j \in idx : i <= j].pid

\* The generic encoder saves object o, whose id() is a: it calls
\* persistent_id(o) first and writes what SaveOp says; an exception of
\* persistent_id ends the dump call.  `gone` are the objects released
\* before the call.
SaveAt(o, a, env, gone) ==
    /\ pc = "dumping"
    /\ nrefs < MaxRefs
    /\ asserts # "unset" => env.asserts = (asserts = "on")
    /\ LET r == persistent_id(seen_ids, group, o, a, env) IN
       /\ ret' = [r.ret EXCEPT !.again = TokenOf(stream, o) # NoPid]
       /\ asserts' = IF r.asserted THEN (IF env.asserts THEN "on" ELSE "off")
                     ELSE asserts
       /\ seen_ids' = r.seen
       /\ group' = r.group
       /\ ncreate' = [ncreate EXCEPT ![o] = @ + (IF r.created THEN 1 ELSE 0)]
       /\ IF r.ret.kind = "raise"
          THEN /\ pc' = "failed"
               /\ call' = [call EXCEPT ![1] = Left(call[1], topo, TRUE)]
               /\ topo' = Restored(call[1], topo)
               /\ UNCHANGED <<stream, memo>>
          ELSE /\ pc' = pc
               /\ stream' = Append(stream, SaveOp(r.ret, memo, o, a))
               /\ memo' = SaveMemo(r.ret, memo, a)
               /\ UNCHANGED <<call, topo>>
    /\ addr' = [x \in (DOMAIN addr \ gone) \cup {o} |-> IF x = o THEN a ELSE addr[x]]
    /\ dead' = dead \cup gone
    /\ calls' = [calls EXCEPT ![o] = @ + 1]
    /\ fresh' = IF calls[o] = 0
                THEN [fresh EXCEPT ![o] = a \notin seen_ids /\ KeyOf(a) \notin DOMAIN group]
                ELSE fresh
    /\ nrefs' = nrefs + 1
    /\ UNCHANGED <<topo0, overlapped>>
    /\ UNCHANGED <<unpickler_vars, hook_vars>>

\* save(o) of an object that is live, or is new at an address of its own.
Save(o, env) ==
    /\ o \notin dead
    /\ SaveAt(o, IF o \in DOMAIN addr THEN addr[o] ELSE Home(o), env, {})

\* save(o) of a new object allocated at the address object p had: nothing
\* held p any more and it was released.  The pickler's memo holds the
\* objects it recorded, so those are never released.
SaveReused(o, p, env) ==
    /\ o \notin DOMAIN addr
    /\ o \notin dead
    /\ p \in DOMAIN addr
    /\ addr[p] \notin DOMAIN memo
    /\ SaveAt(o, addr[p], env, {p})

\* The dump call returns, having saved at least its root object: the pickle
\* ends with STOP and the with-block is left.
DumpExit ==
    /\ pc = "dumping"
    /\ stream # <<>>
    /\ stream[Len(stream)].op # "STOP"
    /\ pc' = "dumped"
    /\ stream' = Append(stream, OpStop)
    /\ call' = [call EXCEPT ![1] = Left(call[1], topo, FALSE)]
    /\ topo' = Restored(call[1], topo)
    /\ UNCHANGED <<topo0, overlapped>>
    /\ UNCHANGED <<group, seen_ids, asserts, addr, dead, nrefs, memo, ret,
                   calls, ncreate, fresh>>
    /\ UNCHANGED <<unpickler_vars, hook_vars>>

\* ------------------------------------------------ HDF5PersistentUnpickler
\* persistent_load as it would be without the final raise: an unknown type
\* tag falls through and None is returned.
persistent_load_falls_through(grp, pid) ==
    IF pid[1] = PyStr(NpArrayTag)
    THEN IF PyToStr(pid[2]) \in DOMAIN grp
         THEN [exc |-> "", val |-> grp[PyToStr(pid[2])]]
         ELSE [exc |-> "KeyError", val |-> NoContent]
    ELSE [exc |-> "", val |-> NoContent]

\* persistent_load as it would be if a missing key were answered with None
\* (a dict.get in place of the subscript).
persistent_load_missing_is_none(grp, pid) ==
    IF pid[1] = PyStr(NpArrayTag)
    THEN IF PyToStr(pid[2]) \in DOMAIN grp
         THEN [exc |-> "", val |-> grp[PyToStr(pid[2])]]
         ELSE [exc |-> "", val |-> NoContent]
    ELSE [exc |-> "UnpicklingError", val |-> NoContent]

\* persistent_load(pid): the value returned or the exception raised.
persistent_load(grp, pid) ==
    LET type_tag == pid[1]
        key_id == pid[2]
    IN IF type_tag = PyStr(NpArrayTag)
       THEN IF PyToStr(key_id) \in DOMAIN grp
            THEN [exc |-> "", val |-> grp[PyToStr(key_id)]]
            ELSE [exc |-> "KeyError", val |-> NoContent]
       ELSE [exc |-> "UnpicklingError", val |-> NoContent]

Decoded(i, v) == [inst |-> i, val |-> v]

\* The generic decoder reads opcode c in state u (the unpickler's lpc, rpos,
\* lmemo, result, ninst): a persistent id is resolved by persistent_load (a
\* new array each time), an inline object is built and memoized, a memo
\* reference yields the memoized instance, STOP ends the load call.
DecodeOp(u, c, grp) ==
    LET v == [u EXCEPT !.rpos = @ + 1] IN
    CASE c.op = "STOP" ->
           [v EXCEPT !.lpc = "loaded",
                     !.result = Append(@, Decoded(0, NoContent))]
      [] c.op = "PERSID" ->
           LET r == persistent_load(grp, c.pid) IN
           IF r.exc # ""
           THEN [v EXCEPT !.lpc = "failed"]
           ELSE [v EXCEPT !.result = Append(@, Decoded(u.ninst + 1, r.val)),
                          !.ninst = @ + 1]
      [] c.op = "INLINE" ->
           [v EXCEPT !.result = Append(@, Decoded(u.ninst + 1, c.val)),
                     !.ninst = @ + 1,
                     !.lmemo = [x \in DOMAIN u.lmemo \cup {c.m} |->
                                   IF x = c.m THEN u.ninst + 1 ELSE u.lmemo[x]]]
      [] OTHER ->
           IF c.m \in DOMAIN u.lmemo
           THEN [v EXCEPT !.result =
                    Append(@, u.result[CHOOSE j \in 1 .. Len(u.result) :
                                          u.result[j].inst = u.lmemo[c.m]])]
           ELSE [v EXCEPT !.lpc = "failed"]

\* Unpickler.load: opcodes are read until STOP, an exception or end of file.
RECURSIVE DecodeAll(_, _, _)
DecodeAll(u, strm, grp) ==
    IF u.lpc # "loading" THEN u
    ELSE IF u.rpos >= Len(strm) THEN [u EXCEPT !.lpc = "failed"]
    ELSE DecodeAll(DecodeOp(u, strm[u.rpos + 1], grp), strm, grp)

\* HDF5PersistentUnpickler.load on the written stream and group: the
\* with-block installs the setstate helper, one pickle is decoded and the
\* with-block is left.
Load ==
    /\ pc = "dumped"
    /\ lpc \in {"idle", "loaded"}
    /\ rpos < Len(stream)
    /\ LET u == DecodeAll([lpc |-> "loading", rpos |-> rpos, lmemo |-> lmemo,
                           result |-> result, ninst |-> ninst], stream, group)
       IN /\ lpc' = u.lpc
          /\ rpos' = u.rpos
          /\ lmemo' = u.lmemo
          /\ result' = u.result
          /\ ninst' = u.ninst
          /\ LET c == Entered(topo, "load")
                 tp == patch_setattr(topo, AttrOf("load"), HelperOf("load"))
             IN /\ call' = [call EXCEPT ![1] = Left(c, tp, u.lpc = "failed")]
                /\ topo' = Restored(c, tp)
    /\ UNCHANGED <<group, asserts, topo0, overlapped>>
    /\ UNCHANGED <<pickler_vars, hook_vars>>

\* The allow-list HDF5PersistentUnpickler.__allowed_packages.
allowed_packages ==
    { <<"b", "u", "i", "l", "t", "i", "n">>,
      <<"p", "y", "e", "m", "m", "a">>,
      <<"m", "d", "t", "r", "a", "j">>,
      <<"n", "u", "m", "p", "y">>,
      <<"s", "c", "i", "p", "y">> }

\* str.find('.'): the lowest 0-based index of a '.', -1 when there is none.
FindDot(s) ==
    IF \E i \in 1 .. Len(s) : s[i] = "."
    THEN (CHOOSE i \in 1 .. Len(s) :
             s[i] = "." /\ \A j \in 1 .. (i - 1) : s[j] # ".") - 1
    ELSE -1

\* The package __check_allowed looks up: module[:i] when find gave i > 0,
\* else the whole module string.
PackageOf(module) ==
    LET i == FindDot(module) IN
    IF i > 0 THEN SubSeq(module, 1, i) ELSE module

\* __check_allowed as it would be with a prefix test (str.startswith) in
\* place of the comparison of the package name.
check_allowed_startswith(module) ==
    \E pkg \in allowed_packages :
        Len(module) >= Len(pkg) /\ SubSeq(module, 1, Len(pkg)) = pkg

\* __check_allowed(module): TRUE when it returns, FALSE when it raises
\* UnpicklingError.
check_allowed(module) == PackageOf(module) \in allowed_packages

\* The registry key as it would be with the separator left out.
Qualified_no_dot(module, name) == module \o name

\* '{}.{}'.format(module, name)
Qualified(module, name) == module \o <<".">> \o name

\* A class, named by where it is defined.
Class(module, name) == [module |-> module, name |-> name]
NoClass == Class(<<>>, <<>>)

\* class_rename_registry.find_replacement_for_old(old): the replacement
\* registered under exactly this string, or None (NoClass).
find_replacement_for_old(reg, old) ==
    IF old \in DOMAIN reg THEN reg[old] ELSE NoClass

\* Unpickler.find_class(module, name) of the generic decoder: the class of
\* that name, or an exception when `exists` is FALSE (no such module or
\* attribute).
default_find_class(module, name, exists) ==
    IF exists THEN [exc |-> "", cls |-> Class(module, name)]
    ELSE [exc |-> "AttributeError", cls |-> NoClass]

\* find_class as it would be with the registry consulted before the
\* allow-list check.
find_class_registry_first(reg, module, name, exists) ==
    LET new_class == find_replacement_for_old(reg, Qualified(module, name)) IN
    IF new_class # NoClass
    THEN [exc |-> "", cls |-> new_class, trace |-> <<"find_replacement_for_old">>]
    ELSE IF ~check_allowed(module)
    THEN [exc |-> "UnpicklingError", cls |-> NoClass,
          trace |-> <<"find_replacement_for_old", "__check_allowed">>]
    ELSE LET d == default_find_class(module, name, exists) IN
         [exc |-> d.exc, cls |-> d.cls,
          trace |-> <<"find_replacement_for_old", "__check_allowed",
                      "super.find_class">>]

\* find_class as it would be without the registry: every allowed class is
\* resolved by the generic decoder.
find_class_no_registry(reg, module, name, exists) ==
    IF ~check_allowed(module)
    THEN [exc |-> "UnpicklingError", cls |-> NoClass,
          trace |-> <<"__check_allowed">>]
    ELSE LET d == default_find_class(module, name, exists) IN
         [exc |-> d.exc, cls |-> d.cls,
          trace |-> <<"__check_allowed", "super.find_class">>]

\* find_class as it would be if a registry miss were an error.
find_class_miss_raises(reg, module, name, exists) ==
    IF ~check_allowed(module)
    THEN [exc |-> "UnpicklingError", cls |-> NoClass,
          trace |-> <<"__check_allowed">>]
    ELSE LET new_class == find_replacement_for_old(reg, Qualified(module, name)) IN
         IF new_class # NoClass
         THEN [exc |-> "", cls |-> new_class,
               trace |-> <<"__check_allowed", "find_replacement_for_old">>]
         ELSE [exc |-> "KeyError", cls |-> NoClass,
               trace |-> <<"__check_allowed", "find_replacement_for_old">>]

\* find_class as it would be if a replacement were checked against the
\* allow-list like the class asked for.
find_class_rechecks_target(reg, module, name, exists) ==
    IF ~check_allowed(module)
    THEN [exc |-> "UnpicklingError", cls |-> NoClass,
          trace |-> <<"__check_allowed">>]
    ELSE LET new_class == find_replacement_for_old(reg, Qualified(module, name)) IN
         IF new_class # NoClass
         THEN IF check_allowed(new_class.module)
              THEN [exc |-> "", cls |-> new_class,
                    trace |-> <<"__check_allowed", "find_replacement_for_old">>]
              ELSE [exc |-> "UnpicklingError", cls |-> NoClass,
                    trace |-> <<"__check_allowed", "find_replacement_for_old">>]
         ELSE LET d == default_find_class(module, name, exists) IN
              [exc |-> d.exc, cls |-> d.cls,
               trace |-> <<"__check_allowed", "find_replacement_for_old",
                           "super.find_class">>]

\* find_class(module, name): the class returned or the exception raised, and
\* the calls made on the way, in order.
find_class(reg, module, name, exists) ==
    IF ~check_allowed(module)
    THEN [exc |-> "UnpicklingError", cls |-> NoClass,
          trace |-> <<"__check_allowed">>]
    ELSE LET new_class == find_replacement_for_old(reg, Qualified(module, name)) IN
         IF new_class # NoClass
         THEN [exc |-> "", cls |-> new_class,
               trace |-> <<"__check_allowed", "find_replacement_for_old">>]
         ELSE LET d == default_find_class(module, name, exists) IN
              [exc |-> d.exc, cls |-> d.cls,
               trace |-> <<"__check_allowed", "find_replacement_for_old",
                           "super.find_class">>]

\* ------------------------------------------------------------ specification
\* What a call may meet: assert statements on or off, create_dataset
\* succeeding or raising.
Env == [asserts : BOOLEAN, ioOk : BOOLEAN]

EmptyFn == [x \in {} |-> 0]

\* The group handed to the pickler may already hold entries of earlier
\* writers; the pickler starts with an empty seen-set and memo.
NoFindClass == [module |-> <<>>, name |-> <<>>, exists |-> FALSE, called |-> FALSE,
                exc |-> "", cls |-> NoClass, trace |-> <<>>]
NoPersistentLoad == [pid |-> NoPid, called |-> FALSE, exc |-> "", val |-> NoContent]

\* The threads of the process that make dump and load calls.
Threads == {1, 2}

\* mdtraj.Topology as it defines neither method itself.
PlainTopology == [a \in Attrs |-> Absent]

\* A pickler and an unpickler just constructed.
Constructed ==
    /\ asserts = "unset"
    /\ seen_ids = {}
    /\ addr = EmptyFn
    /\ dead = {}
    /\ pc = "idle"
    /\ nrefs = 0
    /\ stream = <<>>
    /\ memo = EmptyFn
    /\ ret = RetNone(0)
    /\ calls = [o \in Obj |-> 0]
    /\ ncreate = [o \in Obj |-> 0]
    /\ fresh = [o \in Obj |-> FALSE]
    /\ lpc = "idle"
    /\ rpos = 0
    /\ lmemo = EmptyFn
    /\ result = <<>>
    /\ ninst = 0
    /\ fc = NoFindClass
    /\ pl = NoPersistentLoad
    /\ call = [t \in Threads |-> NoCall]
    /\ overlapped = FALSE

Init ==
    /\ Constructed
    /\ \E ks \in SUBSET ForeignKeys : group = [k \in ks |-> ForeignContent]
    /\ registry = EmptyFn
    /\ topo0 = PlainTopology
    /\ topo = topo0

Next ==
    \/ DumpEnter
    \/ \E o \in Obj, env \in Env : Save(o, env)
    \/ \E o, p \in Obj, env \in Env : SaveReused(o, p, env)
    \/ DumpExit
    \/ Load

Spec == Init /\ [][Next]_vars

\* ------------------------------------------- find_class on arbitrary input
Dot == <<".">>
OldMod == <<"o", "l", "d", ".", "M", "o", "d">>
OldClass == <<"O", "l", "d", "C", "l", "a", "s", "s">>
PyemmaM == <<"p", "y", "e", "m", "m", "a", ".", "m">>
NewClass == Class(<<"p", "y", "e", "m", "m", "a", ".", "n">>, <<"N", "e", "w", "C", "l", "a", "s", "s">>)
EvilPayload == Class(<<"e", "v", "i", "l">>, <<"P", "a", "y", "l", "o", "a", "d">>)

\* Module paths a stream may name: for every allow-list name A the paths A,
\* A.m, A_x.y, As, .A, A. and evil.A, and a few others.
ModulePaths ==
    UNION {{A, A \o Dot \o <<"m">>, A \o <<"_", "x">> \o Dot \o <<"y">>,
            A \o <<"s">>, Dot \o A, A \o Dot, <<"e", "v", "i", "l">> \o Dot \o A}
           : A \in allowed_packages}
    \cup {<<>>, Dot, <<"e", "v", "i", "l">>, OldMod}

ClassNames == {OldClass, <<"P", "a", "y", "l", "o", "a", "d">>}

\* Old identifiers a registry may hold, and what it may map them to.
OldIdentifiers ==
    { <<"o", "l", "d", ".", "M", "o", "d", ".", "O", "l", "d", "C", "l", "a", "s", "s">>,
      <<"p", "y", "e", "m", "m", "a", ".", "m", ".", "O", "l", "d", "C", "l", "a", "s", "s">>,
      <<"e", "v", "i", "l", ".", "P", "a", "y", "l", "o", "a", "d">> }
Replacements == {NewClass, EvilPayload}

Registries ==
    UNION {[ids -> Replacements] : ids \in SUBSET OldIdentifiers}

FindClass(module, name, exists) ==
    /\ LET r == find_class(registry, module, name, exists) IN
       fc' = [module |-> module, name |-> name, exists |-> exists, called |-> TRUE,
              exc |-> r.exc, cls |-> r.cls, trace |-> r.trace]
    /\ UNCHANGED <<group, asserts, registry, pl>>
    /\ UNCHANGED <<pickler_vars, unpickler_vars, patch_vars>>

InitFind ==
    /\ Constructed
    /\ group = EmptyFn
    /\ registry \in Registries
    /\ topo0 = PlainTopology
    /\ topo = topo0

NextFind ==
    \E module \in ModulePaths, name \in ClassNames, exists \in BOOLEAN :
        FindClass(module, name, exists)

SpecFind == InitFind /\ [][NextFind]_vars

\* -------------------------------------- persistent_load on arbitrary input
UnknownTag == <<"u", "n", "k", "n", "o", "w", "n", "_", "t", "a", "g">>
KeyK1 == <<"k", "1">>

\* Persistent ids a stream may hold: a type tag with an int or str key.
TypeTags == {NpArrayTag, UnknownTag, <<>>, SubSeq(NpArrayTag, 1, 2)}
TokenKeys == {PyInt(Home(1)), PyStr(KeyOf(Home(1))), PyInt(Home(2)), PyStr(KeyK1)}
Tokens == {<<PyStr(tag), key>> : tag \in TypeTags, key \in TokenKeys}

\* Keys a written group may hold.
StoreKeys == {KeyOf(Home(1)), KeyOf(Home(2)), KeyK1}

\* persistent_load as it would act on the group if it took the entry out of
\* the group when reading it.
PersistentLoad_takes_entry(pid) ==
    /\ LET r == persistent_load(group, pid) IN
       /\ pl' = [pid |-> pid, called |-> TRUE, exc |-> r.exc, val |-> r.val]
       /\ group' = IF r.exc = ""
                   THEN [k \in DOMAIN group \ {PyToStr(pid[2])} |-> group[k]]
                   ELSE group
    /\ UNCHANGED <<asserts, registry, fc>>
    /\ UNCHANGED <<pickler_vars, unpickler_vars, patch_vars>>

PersistentLoad(pid) ==
    /\ LET r == persistent_load(group, pid) IN
       pl' = [pid |-> pid, called |-> TRUE, exc |-> r.exc, val |-> r.val]
    /\ UNCHANGED <<group, asserts, registry, fc>>
    /\ UNCHANGED <<pickler_vars, unpickler_vars, patch_vars>>

InitTokens ==
    /\ Constructed
    /\ \E ks \in SUBSET StoreKeys :
          group \in [ks -> {Content(1), Content(2)}]
    /\ registry = EmptyFn
    /\ topo0 = PlainTopology
    /\ topo = topo0

NextTokens == \E pid \in Tokens : PersistentLoad(pid)

SpecTokens == InitTokens /\ [][NextTokens]_vars

\* --------------------- dump and load calls made by the threads of a process
CallKinds == {"dump", "load"}
\* mdtraj.Topology before the first call: for each of the two methods,
\* defined by the class itself ("own") or not.
TopologyStates == [Attrs -> {Absent, "own"}]

session_vars == <<group, asserts, pickler_vars, unpickler_vars, hook_vars>>

\* Thread t calls dump or load of a session of its own: the imports at the
\* head of the method come first.
CallEnter(t, kind) ==
    /\ call[t].pc = "out"
    /\ call' = [call EXCEPT ![t] = [NoCall EXCEPT !.pc = "import", !.kind = kind]]
    /\ overlapped' = (overlapped \/ \E u \in Threads \ {t} : call[u].pc # "out")
    /\ UNCHANGED <<topo, topo0>>
    /\ UNCHANGED session_vars

\* An import fails (unittest.mock, mdtraj_helpers, or mdtraj itself when
\* the patcher resolves its target): the call ends before anything is
\* patched.
ImportFails(t) ==
    /\ call[t].pc = "import"
    /\ call' = [call EXCEPT ![t].pc = "out", ![t].outcome = "ImportError"]
    /\ UNCHANGED <<topo, topo0, overlapped>>
    /\ UNCHANGED session_vars

\* The patcher's __enter__ reads the original.
PatchGetOriginal(t) ==
    /\ call[t].pc = "import"
    /\ call' = [call EXCEPT ![t].pc = "patching",
                             ![t].patcher = get_original(topo, AttrOf(call[t].kind))]
    /\ UNCHANGED <<topo, topo0, overlapped>>
    /\ UNCHANGED session_vars

\* The patcher's __enter__ installs the helper; the with-block is entered.
PatchSetattr(t) ==
    /\ call[t].pc = "patching"
    /\ topo' = patch_setattr(topo, AttrOf(call[t].kind), HelperOf(call[t].kind))
    /\ call' = [call EXCEPT ![t].pc = "running"]
    /\ UNCHANGED <<topo0, overlapped>>
    /\ UNCHANGED session_vars

\* The generic encoder or decoder of thread t makes a step; it finds the
\* helper installed or not.
Step(t) ==
    /\ call[t].pc = "running"
    /\ call' = [call EXCEPT ![t].bare =
                   @ \/ topo[AttrOf(call[t].kind)] # HelperOf(call[t].kind)]
    /\ UNCHANGED <<topo, topo0, overlapped>>
    /\ UNCHANGED session_vars

\* The with-block of thread t is left, by return or by an exception: the
\* patcher's __exit__ runs.
CallExit(t, failed) ==
    /\ call[t].pc = "running"
    /\ call' = [call EXCEPT ![t] = Left(call[t], topo, failed)]
    /\ topo' = Restored(call[t], topo)
    /\ UNCHANGED <<topo0, overlapped>>
    /\ UNCHANGED session_vars

InitPatch ==
    /\ Constructed
    /\ group = EmptyFn
    /\ registry = EmptyFn
    /\ topo0 \in TopologyStates
    /\ topo = topo0

NextPatch ==
    \E t \in Threads :
        \/ \E kind \in CallKinds : CallEnter(t, kind)
        \/ ImportFails(t)
        \/ PatchGetOriginal(t)
        \/ PatchSetattr(t)
        \/ Step(t)
        \/ \E failed \in BOOLEAN : CallExit(t, failed)

SpecPatch == InitPatch /\ [][NextPatch]_vars

\* ------------------------------------------------------------------ claims
\* A non-empty numeric array: an array of a non-object element type whose
\* length is not zero.
NonEmptyNumeric(o) ==
    IsArray(o) /\ Dtype(o) # "object" /\ HasLen(o) /\ PyLen(o) > 0

\* The keys whose entry holds the data of object o.
EntriesFor(o) == {k \in DOMAIN group : group[k].data = o}

\* The last persistent_id call was on o and its create_dataset call raised.
CreateFailed(o) == ret.kind = "raise" /\ ret.exc = "IOError" /\ ret.obj = o

\* C1 as stated: for every non-empty numeric array instance passed to
\* persistent_id one or more times, create_dataset is called exactly once
\* for that instance.
C1_ExactlyOneCreate ==
    \A o \in Obj :
        (NonEmptyNumeric(o) /\ calls[o] >= 1) => ncreate[o] = 1

\* C1 amended: for every non-empty numeric array instance passed to
\* persistent_id one or more times, create_dataset is called at most once
\* for that instance and the group never holds two entries for it; it is
\* called exactly once when, at the first call, the instance's id is not in
\* the seen-set and its key is not in the group, and then the group holds
\* exactly one entry for it unless that create_dataset call raised.
C1_AtMostOneCreate ==
    \A o \in Obj :
        (NonEmptyNumeric(o) /\ calls[o] >= 1) =>
            /\ ncreate[o] <= 1
            /\ Cardinality(EntriesFor(o)) <= 1
            /\ fresh[o] =>
                  /\ ncreate[o] = 1
                  /\ ~CreateFailed(o) => Cardinality(EntriesFor(o)) = 1

\* An array passed three times, stored once.
C1_Witness ==
    /\ calls[1] = 3
    /\ fresh[1]
    /\ ncreate[1] = 1
    /\ Cardinality(EntriesFor(1)) = 1

\* C2 as stated: a persistent_id call on an array instance for which an
\* earlier call of the session returned a persistent id returns a persistent
\* id again, with the same key, and creates no second store entry.
C2_SameTokenAgain ==
    ret.again =>
        /\ ret.kind = "pid"
        /\ ret.pid = TokenOf(stream, ret.obj)
        /\ ncreate[ret.obj] <= 1

\* Opcodes i..j of the stream belong to one pickle.
SamePickle(i, j) == \A k \in i .. j : stream[k].op # "STOP"

\* C3 as stated: after dump and load on the same group, all places of one
\* graph that referred to the same non-empty numeric array instance (one
\* whose id and key were new to the session and the group when it was first
\* saved) refer to one and the same decoded instance.
C3_SharedStaysShared ==
    lpc = "loaded" =>
        \A i, j \in 1 .. Len(result) :
            (/\ i < j
             /\ SamePickle(i, j)
             /\ stream[i].src = stream[j].src
             /\ NonEmptyNumeric(stream[i].src)
             /\ fresh[stream[i].src])
            => result[i].inst = result[j].inst

\* C4 as stated: for every graph of plain values and numeric arrays the dump
\* call does not fail on the graph, the load of what it wrote does not fail,
\* and every place of the loaded graph holds the shape, element type and
\* values the dumped graph had there.
C4_RoundTrip ==
    /\ pc = "failed" => ret.exc # "TypeError"
    /\ lpc # "failed"
    /\ lpc = "loaded" =>
          \A i \in 1 .. Len(result) :
              stream[i].op # "STOP" => result[i].val = Content(stream[i].src)

\* The allow-list as the specification gives it.
ClaimAllowList ==
    { <<"b", "u", "i", "l", "t", "i", "n">>,
      <<"p", "y", "e", "m", "m", "a">>,
      <<"m", "d", "t", "r", "a", "j">>,
      <<"n", "u", "m", "p", "y">>,
      <<"s", "c", "i", "p", "y">> }

\* The top-level namespace of a module path: what precedes its first '.',
\* the whole path when it has none.
TopLevelOf(m) ==
    LET n == CHOOSE n \in 0 .. Len(m) :
                 /\ \A j \in 1 .. n : m[j] # "."
                 /\ n = Len(m) \/ m[n + 1] = "."
    IN SubSeq(m, 1, n)

\* The identifier 'module.name'.
DottedName(m, n) ==
    [i \in 1 .. (Len(m) + 1 + Len(n)) |->
        IF i <= Len(m) THEN m[i]
        ELSE IF i = Len(m) + 1 THEN "."
        ELSE n[i - Len(m) - 1]]

\* C5: find_class raises UnpicklingError exactly for the module paths whose
\* top-level namespace is not one of builtin, pyemma, mdtraj, numpy, scipy,
\* whether or not the named class exists.
C5_AllowListExact ==
    fc.called =>
        ((fc.exc = "UnpicklingError") <=> (TopLevelOf(fc.module) \notin ClaimAllowList))

\* evil.Payload exists and is importable, and is rejected.
C5_Witness ==
    /\ fc.called
    /\ fc.module = <<"e", "v", "i", "l">>
    /\ fc.exists
    /\ fc.exc = "UnpicklingError"

\* C6: for a module path whose top-level namespace is not allowed,
\* find_class raises the security error after the allow-list check alone:
\* neither the registry lookup nor the default class resolution is made,
\* also when the registry holds a replacement for that 'module.name'.
C6_CheckBeforeRegistry ==
    (fc.called /\ TopLevelOf(fc.module) \notin ClaimAllowList) =>
        /\ fc.exc = "UnpicklingError"
        /\ fc.trace = <<"__check_allowed">>

\* A disallowed 'module.name' the registry has a replacement for is rejected.
C6_Witness ==
    /\ fc.called
    /\ TopLevelOf(fc.module) \notin ClaimAllowList
    /\ DottedName(fc.module, fc.name) \in DOMAIN registry
    /\ fc.exc = "UnpicklingError"

\* The registry maps old.Mod.OldClass, and find_class was called with
\* module 'old.Mod' and name 'OldClass'.
OldModRegisteredAndAsked ==
    /\ fc.called
    /\ fc.module = OldMod
    /\ fc.name = OldClass
    /\ DottedName(OldMod, OldClass) \in DOMAIN registry

\* C7 as stated: with old.Mod.OldClass registered, the class reference
\* (module 'old.Mod', name 'OldClass') resolves to the registered class.
C7_OldModMigrates ==
    OldModRegisteredAndAsked =>
        /\ fc.exc = ""
        /\ fc.cls = registry[DottedName(OldMod, OldClass)]

\* C7 amended: with pyemma.m.OldClass registered, the class reference
\* (module 'pyemma.m', name 'OldClass') resolves to the registered class;
\* the reference (module 'old.Mod', name 'OldClass') is rejected with
\* UnpicklingError although old.Mod.OldClass is registered, because 'old' is
\* not on the allow-list.
C7_AllowedOldMigrates ==
    /\ (/\ fc.called
        /\ fc.module = PyemmaM
        /\ fc.name = OldClass
        /\ DottedName(PyemmaM, OldClass) \in DOMAIN registry)
       => (fc.exc = "" /\ fc.cls = registry[DottedName(PyemmaM, OldClass)])
    /\ OldModRegisteredAndAsked => fc.exc = "UnpicklingError"

\* pyemma.m.OldClass is registered with NewClass and resolves to it.
C7_Witness ==
    /\ fc.called
    /\ fc.module = PyemmaM
    /\ fc.name = OldClass
    /\ DottedName(PyemmaM, OldClass) \in DOMAIN registry
    /\ registry[DottedName(PyemmaM, OldClass)] = NewClass
    /\ fc.cls = NewClass

\* C8: when the top-level namespace is allowed and the registry has an entry
\* for exactly 'module.name', find_class returns that entry and does not
\* make the default class resolution.
C8_RegisteredReturned ==
    (/\ fc.called
     /\ TopLevelOf(fc.module) \in ClaimAllowList
     /\ DottedName(fc.module, fc.name) \in DOMAIN registry)
    => /\ fc.exc = ""
       /\ fc.cls = registry[DottedName(fc.module, fc.name)]
       /\ \A i \in 1 .. Len(fc.trace) : fc.trace[i] # "super.find_class"

\* An allowed, registered identifier whose own class exists is replaced.
C8_Witness ==
    /\ fc.called
    /\ fc.exists
    /\ TopLevelOf(fc.module) \in ClaimAllowList
    /\ DottedName(fc.module, fc.name) \in DOMAIN registry
    /\ fc.cls = registry[DottedName(fc.module, fc.name)]
    /\ fc.cls # Class(fc.module, fc.name)

\* C9: when the top-level namespace is allowed and the registry has no entry
\* for 'module.name', find_class ends as the default class resolution does:
\* it returns the class of that module and name, or raises what the default
\* resolution raises.
C9_MissIsDefault ==
    (/\ fc.called
     /\ TopLevelOf(fc.module) \in ClaimAllowList
     /\ DottedName(fc.module, fc.name) \notin DOMAIN registry)
    => /\ fc.trace # <<>> /\ fc.trace[Len(fc.trace)] = "super.find_class"
       /\ IF fc.exists
          THEN fc.exc = "" /\ fc.cls = Class(fc.module, fc.name)
          ELSE fc.exc = "AttributeError"

\* A registry that holds other entries, and an allowed class not among them.
C9_Witness ==
    /\ fc.called
    /\ fc.exists
    /\ registry # EmptyFn
    /\ TopLevelOf(fc.module) \in ClaimAllowList
    /\ DottedName(fc.module, fc.name) \notin DOMAIN registry
    /\ fc.cls = Class(fc.module, fc.name)

\* The type tag of the persistent ids the specification defines.
ClaimTag == <<"n", "p", "_", "a", "r", "r", "a", "y">>

\* C10: persistent_load of a persistent id whose type tag is not "np_array"
\* raises UnpicklingError, whether or not its key is in the group.
C10_UnknownTagRaises ==
    (pl.called /\ pl.pid[1] # PyStr(ClaimTag)) => pl.exc = "UnpicklingError"

\* ("unknown_tag", "k1") with k1 in the group is refused.
C10_Witness ==
    /\ pl.called
    /\ pl.pid = <<PyStr(<<"u", "n", "k", "n", "o", "w", "n", "_", "t", "a", "g">>), PyStr(<<"k", "1">>)>>
    /\ <<"k", "1">> \in DOMAIN group
    /\ pl.exc = "UnpicklingError"

\* C11: persistent_load called with a token ("np_array", key) whose key has
\* no entry in the group ends with an error and returns no value.
C11_MissingKeyRaises ==
    (/\ pl.called
     /\ pl.pid[1] = PyStr(ClaimTag)
     /\ PyToStr(pl.pid[2]) \notin DOMAIN group)
    => (pl.exc # "" /\ pl.val = NoContent)

\* The token ("np_array", 10) is loaded from a group that holds other
\* entries but none under "10".
C11_Witness ==
    /\ pl.called
    /\ pl.pid = <<PyStr(ClaimTag), PyInt(10)>>
    /\ DOMAIN group # {}
    /\ <<"1", "0">> \notin DOMAIN group
    /\ pl.exc = "KeyError"

\* This step is a persistent_id call on a non-empty numeric array whose id
\* is not in the seen-set while its key already exists in the group.
C12_Collision ==
    /\ calls' # calls
    /\ NonEmptyNumeric(ret'.obj)
    /\ addr'[ret'.obj] \notin seen_ids
    /\ KeyOf(addr'[ret'.obj]) \in DOMAIN group

\* C12 as stated: when the writer is about to store an array whose key
\* already exists in the group while the array's identity is not in the
\* seen-set, the dump fails and no token for the pre-existing entry is
\* returned.
C12_CollisionFails ==
    [][C12_Collision => (pc' = "failed" /\ ret'.kind = "raise")]_vars

\* No dump or load call is in progress.
NoCallInProgress == \A t \in Threads : call[t].pc = "out"

\* C13: after any sequence of non-overlapping dump and load calls, each of
\* which may return or raise at any point, whenever no call is in progress
\* Topology.__getstate__ and __setstate__ are what they were before the
\* first call (the old value, or absent).
C13_RestoredBetweenCalls ==
    (~overlapped /\ NoCallInProgress) => topo = topo0

\* A dump that raised and a load that returned, one after the other, on a
\* Topology that defines __getstate__ itself and has no __setstate__.
C13_Witness ==
    /\ ~overlapped
    /\ NoCallInProgress
    /\ call[1].kind = "dump" /\ call[1].outcome = "raised"
    /\ call[2].kind = "load" /\ call[2].outcome = "returned"
    /\ topo0 = [a \in Attrs |-> IF a = "__getstate__" THEN "own" ELSE Absent]
    /\ topo = topo0

\* C14: create_dataset is never invoked for a key that already exists in
\* the group, and the content stored under a key never changes once the key
\* exists.
C14_WriteOnce ==
    [][/\ \A k \in DOMAIN group : k \in DOMAIN group' /\ group'[k] = group[k]
       /\ \A o \in Obj :
             ncreate'[o] # ncreate[o] => KeyOf(addr'[o]) \notin DOMAIN group]_vars

\* The writer met an existing key when it was about to store an array: it
\* raised, and the entry is as it was.
C14_Witness ==
    /\ ret.kind = "raise"
    /\ ret.exc = "AssertionError"
    /\ ncreate[ret.obj] = 0
    /\ KeyOf(addr[ret.obj]) \in DOMAIN group
    /\ group[KeyOf(addr[ret.obj])] = ForeignContent

\* C15: every persistent id returned by persistent_id, and so every one in
\* the stream, names a key that is in the group from the moment it is
\* returned.
C15_KeyExistsAtReturn ==
    /\ ret.kind = "pid" => PyToStr(ret.pid[2]) \in DOMAIN group
    /\ \A i \in 1 .. Len(stream) :
          stream[i].op = "PERSID" => PyToStr(stream[i].pid[2]) \in DOMAIN group

\* A persistent id was just returned for an array this call stored.
C15_Witness ==
    /\ ret.kind = "pid"
    /\ ncreate[ret.obj] = 1
    /\ stream # <<>>
    /\ stream[Len(stream)] = OpPersid(ret.pid, ret.obj)
    /\ group[PyToStr(ret.pid[2])] = Content(ret.obj)

\* An array of length 0.
EmptyArray(o) == IsArray(o) /\ HasLen(o) /\ PyLen(o) = 0

\* C16: persistent_id returns None for every array of length 0, and no
\* sequence of persistent_id calls on such arrays creates a store entry.
C16_EmptyNeverStored ==
    \A o \in Obj :
        EmptyArray(o) =>
            /\ ret.obj = o => ret.kind = "None"
            /\ ncreate[o] = 0
            /\ EntriesFor(o) = {}

\* The empty array was passed twice, the second time after another array
\* was stored.
C16_Witness ==
    /\ calls[3] = 2
    /\ ret.obj = 3
    /\ ret.kind = "None"
    /\ seen_ids # {}
    /\ ncreate[3] = 0

\* Not a numeric array, or an array of the object element type.
NotEligible(o) == ~IsArray(o) \/ Dtype(o) = "object"

\* C17: persistent_id returns None for every object that is not a numeric
\* array and for every array of the object element type, whatever the
\* seen-set and the group hold.
C17_IneligibleIsNone ==
    \A o \in Obj :
        NotEligible(o) =>
            /\ ret.obj = o => ret.kind = "None"
            /\ ncreate[o] = 0
            /\ EntriesFor(o) = {}

\* An object-dtype array was passed after a plain value, with a non-empty
\* seen-set and group.
C17_Witness ==
    /\ ret.obj = 4
    /\ ret.kind = "None"
    /\ calls[5] >= 1
    /\ seen_ids # {}
    /\ DOMAIN group # {}

\* C18 as stated: persistent_load of a token ("np_array", key) whose key is
\* in the group returns the content stored under str(key), and so every
\* token persistent_id produced in the writing session is resolved to the
\* entry that call created: the content of the array it was produced for.
C18_TokensResolve ==
    \A i \in 1 .. Len(result) :
        (stream[i].op = "PERSID" /\ stream[i].pid[1] = PyStr(ClaimTag)) =>
            /\ PyToStr(stream[i].pid[2]) \in DOMAIN group
            /\ result[i].val = group[PyToStr(stream[i].pid[2])]
            /\ result[i].val = Content(stream[i].src)

\* C19 as stated: when two load calls overlap in time in one process, then
\* for every order in which they enter and leave, every step of each call's
\* decoding finds the Topology.__setstate__ override installed.
C19_OverrideThroughoutLoad ==
    \A t \in Threads : call[t].kind = "load" => ~call[t].bare

\* C20 as stated: when two dump calls (or two load calls) of different
\* sessions overlap in time in one process, then for every interleaving of
\* their enter and exit steps, once both calls have returned the patched
\* attribute of mdtraj.Topology is back to what it was before either call
\* began.
C20_NoLeakAfterOverlap ==
    (/\ overlapped
     /\ NoCallInProgress
     /\ call[1].kind = call[2].kind
     /\ \A t \in Threads : call[t].outcome = "returned")
    => topo = topo0

\* This step enters a dump call.
DumpStarts == pc # "dumping" /\ pc' = "dumping"

C22_NoneOrTokenAlways ==
    (ret.kind = "raise" /\ ret.exc # "IOError") => ret.exc = "AssertionError"

\* C23 as stated: every token persistent_id returns is a pair
\* ("np_array", key) whose key is a string, the name of the array's entry
\* in the group.
C23_KeyIsString ==
    ret.kind = "pid" =>
        /\ ret.pid[1] = PyStr(ClaimTag)
        /\ ret.pid[2].t = "str"
        /\ ret.pid[2].s \in DOMAIN group

\* C23 amended: every token persistent_id returns, and every one in the
\* stream, is a pair ("np_array", id) whose second component is the int
\* id(array); str(id) is a name in the group, and it is the name under which
\* the array's entry was created when the call created one.
C23_KeyIsIdInt ==
    /\ ret.kind = "pid" =>
          /\ ret.pid[1] = PyStr(ClaimTag)
          /\ ret.pid[2] = PyInt(addr[ret.obj])
          /\ Str(ret.pid[2].n) \in DOMAIN group
          /\ ncreate[ret.obj] = 1 => group[Str(ret.pid[2].n)] = Content(ret.obj)
    /\ \A i \in 1 .. Len(stream) :
          stream[i].op = "PERSID" =>
              /\ stream[i].pid[1] = PyStr(ClaimTag)
              /\ stream[i].pid[2].t = "int"
              /\ Str(stream[i].pid[2].n) \in DOMAIN group

\* The token ("np_array", 10) was returned for the array whose id is 10 and
\* whose entry is named "10".
C23_Witness ==
    /\ ret.kind = "pid"
    /\ ret.obj = 2
    /\ ret.pid = <<PyStr(ClaimTag), PyInt(10)>>
    /\ <<"1", "0">> \in DOMAIN group
    /\ group[<<"1", "0">>] = Content(2)

\* C24: when an allowed old identifier 'module.name' is registered with a
\* replacement that lives in a namespace outside the allow-list, find_class
\* returns that replacement and raises no security error.
C24_TargetNotRechecked ==
    (/\ fc.called
     /\ TopLevelOf(fc.module) \in ClaimAllowList
     /\ DottedName(fc.module, fc.name) \in DOMAIN registry
     /\ TopLevelOf(registry[DottedName(fc.module, fc.name)].module) \notin ClaimAllowList)
    => /\ fc.exc # "UnpicklingError"
       /\ fc.cls = registry[DottedName(fc.module, fc.name)]

\* pyemma.m.OldClass is registered with evil.Payload, and evil.Payload is
\* what find_class returned.
C24_Witness ==
    /\ fc.called
    /\ fc.module = PyemmaM
    /\ fc.name = OldClass
    /\ DottedName(PyemmaM, OldClass) \in DOMAIN registry
    /\ registry[DottedName(PyemmaM, OldClass)] = EvilPayload
    /\ fc.exc = ""
    /\ fc.cls = EvilPayload

\* Opcode i is the token of an array that was stored and released
\* afterwards, and a different array now has the identity the token carries.
IdentityReused(i) ==
    /\ stream[i].op = "PERSID"
    /\ ncreate[stream[i].src] = 1
    /\ stream[i].src \in dead
    /\ \E o \in DOMAIN addr : o # stream[i].src /\ addr[o] = stream[i].pid[2].n

\* C25 as stated: in a dump session in which a redirected array is released
\* and a different array later receives the same identity, every token
\* resolves at load time to the content of the very array it was emitted
\* for, never to another object's data.
C25_NoStaleAliasing ==
    (\E i \in 1 .. Len(stream) : IdentityReused(i)) =>
        \A j \in 1 .. Len(result) :
            stream[j].op = "PERSID" => result[j].val = Content(stream[j].src)

\* C26 as stated: in every reachable state of a dump session, states after
\* a failed create_dataset call included, every identity in the seen-set
\* has an entry in the group under its string form.
C26_SeenHasEntry ==
    \A a \in seen_ids : KeyOf(a) \in DOMAIN group

\* C27: a load never changes the store: over every sequence of
\* persistent_load calls, returning or raising, and over every load call,
\* the keys of the group and the content under each key stay what they
\* were.
C27_LoadKeepsStore ==
    [][(pl' # pl \/ lpc' # lpc \/ rpos' # rpos) => group' = group]_vars

\* A token was resolved from a group of three entries, which are all still
\* there.
C27_Witness ==
    /\ pl.called
    /\ pl.exc = ""
    /\ pl.val = Content(2)
    /\ Cardinality(DOMAIN group) = 3
    /\ PyToStr(pl.pid[2]) \in DOMAIN group

\* C28: every persistent_id call that returns None (for a non-array, an
\* object-dtype array, an array of length 0 or an array whose identity is in
\* the seen-set) leaves the seen-set and the group as they were.
C28_NoneChangesNothing ==
    [][(calls' # calls /\ ret'.kind = "None") =>
          (seen_ids' = seen_ids /\ group' = group)]_vars

\* None was returned for an array that was stored before, after None was
\* returned for an empty array; the seen-set and the group hold the stored
\* array alone.
C28_Witness ==
    /\ ret.kind = "None"
    /\ ret.obj = 1
    /\ calls[1] = 2
    /\ calls[3] = 1
    /\ seen_ids = {addr[1]}
    /\ EntriesFor(1) # {}
    /\ EntriesFor(3) = {}

====
